---- MODULE Spec2Model ----
(***************************************************************************)
(* Match-3 puzzle core of the game: Board (grid, match scan, gravity,      *)
(* refill, shuffle), PowerUps (inventory, arm / target / execute) and      *)
(* PuzzleEngine (moves, score, objectives, cascade driven by timers).      *)
(*                                                                         *)
(* Time is counted in units of 100 ms: every setTimeout of the code has a  *)
(* delay that is a multiple of it (100, 200, 300 ms).  Math.random is a    *)
(* nondeterministic choice.                                                *)
(***************************************************************************)
EXTENDS Integers, Sequences, FiniteSets

VARIABLES
    board,              \* Board.tiles: board[row][col] is a tile or null
    isPlaying,          \* PuzzleEngine.isPlaying
    isPaused,           \* PuzzleEngine.isPaused
    isAnimating,        \* PuzzleEngine.isAnimating
    currentLevel,       \* PuzzleEngine.currentLevel
    movesLeft,          \* PuzzleEngine.movesLeft
    score,              \* PuzzleEngine.score
    objectives,         \* PuzzleEngine.objectives (0 where the type has no entry)
    comboCount,         \* PuzzleEngine.comboCount
    selectedTile,       \* PuzzleEngine.selectedTile: <<>> or <<position>>
    inventory,          \* PowerUps.inventory
    activePowerUp,      \* PowerUps.activePowerUp ("null" when none)
    isWaitingForTarget, \* PowerUps.isWaitingForTarget
    timers,             \* pending setTimeout callbacks, in the order they were set
    levelResult,        \* how endLevel last ended the level: "none", "won", "lost"
    completeLevelArgs,  \* arguments of the last game.completeLevel call, or <<>>
    lastOp              \* the handler that ran last, with what it saw before it ran

vars == <<board, isPlaying, isPaused, isAnimating, currentLevel, movesLeft, score,
          objectives, comboCount, selectedTile, inventory, activePowerUp,
          isWaitingForTarget, timers, levelResult, completeLevelArgs, lastOp>>

----------------------------------------------------------------------------
(* Bounds of the model *)

\* board size of the level played (8 x 8 in the code's level 1)
Width == 4
Height == 3
\* move budget of the level played (25 in the code's level 1)
LevelMoves == 2
\* objective counts of the level played (10 and 10 in the code's level 1)
RedTarget == 6
BlueTarget == 1
\* level numbers a caller passes to startLevel
MaxLevel == 1
\* a cascade is followed for at most this many processMatches iterations
MaxCombo == 3
\* at most this many setTimeout callbacks are pending at a time
MaxTimers == 2
\* seeds of the random stream that fills a new board
NumSeeds == 2
\* the power-ups of the saved game that is loaded: at most this many in all
SavedPowerUps == 1

----------------------------------------------------------------------------
(* Tiles *)

TileTypes == <<"red", "blue", "green">>
Types == {TileTypes[i] : i \in 1..Len(TileTypes)}

Cols == 0..(Width - 1)
Rows == 0..(Height - 1)
Positions == [col : Cols, row : Rows]
\* the cells a power-up is aimed at: a corner and a cell next to it on the diagonal
Targets == {[col |-> 0, row |-> 0], [col |-> 1, row |-> 1]}

\* new Tile(type, col, row)
Tile(type, col, row) ==
    [type |-> type, col |-> col, row |-> row, isSpecial |-> FALSE, isMatched |-> FALSE]

\* the empty cell (null in the code)
null == [type |-> "null", col |-> -1, row |-> -1, isSpecial |-> FALSE, isMatched |-> FALSE]

\* Tile.makeSpecial
makeSpecial(tile) == [tile EXCEPT !.isSpecial = TRUE]

\* Tile.match
match(tile) == [tile EXCEPT !.isMatched = TRUE]

\* Tile.canMatch, as the truth value of what it returns (null for a null other)
canMatch(tile, other) ==
    /\ other # null
    /\ tile.type = other.type
    /\ ~tile.isMatched
    /\ ~other.isMatched

----------------------------------------------------------------------------
(* Board *)

\* Board.getTile: null outside the grid
getTile(b, col, row) ==
    IF col < 0 \/ col >= Width \/ row < 0 \/ row >= Height
    THEN null
    ELSE b[row][col]

\* setTile storing the tile with the col and row it came with
setTileKeepsPosition(b, col, row, tile) ==
    IF col < 0 \/ col >= Width \/ row < 0 \/ row >= Height
    THEN b
    ELSE [b EXCEPT ![row][col] = tile]

\* Board.setTile: nothing outside the grid; a tile stored takes the cell's position
setTile(b, col, row, tile) ==
    IF col < 0 \/ col >= Width \/ row < 0 \/ row >= Height
    THEN b
    ELSE [b EXCEPT ![row][col] =
            IF tile # null THEN [tile EXCEPT !.col = col, !.row = row] ELSE null]

\* Board.swapTiles: the board after it (unchanged when a cell is empty or outside)
BoardSwapTilesLeavesFirst(b, col1, row1, col2, row2) ==
    LET tile1 == getTile(b, col1, row1)
        tile2 == getTile(b, col2, row2)
    IN  IF tile1 = null \/ tile2 = null
        THEN b
        ELSE setTile(b, col1, row1, tile2)

BoardSwapTiles(b, col1, row1, col2, row2) ==
    LET tile1 == getTile(b, col1, row1)
        tile2 == getTile(b, col2, row2)
    IN  IF tile1 = null \/ tile2 = null
        THEN b
        ELSE setTile(setTile(b, col1, row1, tile2), col2, row2, tile1)

\* the scan of a line without the check of the final match after the loop
RECURSIVE ScanLineNoFinalCheck(_, _, _, _)
ScanLineNoFinalCheck(line, i, currentMatch, out) ==
    IF i > Len(line)
    THEN out
    ELSE LET tile == line[i] IN
         IF tile = null
         THEN ScanLineNoFinalCheck(line, i + 1, currentMatch, out)
         ELSE IF currentMatch # <<>> /\ tile.type = currentMatch[1].type
         THEN ScanLineNoFinalCheck(line, i + 1, Append(currentMatch, tile), out)
         ELSE ScanLineNoFinalCheck(line, i + 1, <<tile>>,
                       IF Len(currentMatch) >= 3 THEN Append(out, currentMatch) ELSE out)

\* the loop body of findMatches over one line: the runs of >= 3 tiles of one
\* type; an empty cell is skipped (continue) and does not end the run
RECURSIVE ScanLine(_, _, _, _)
ScanLine(line, i, currentMatch, out) ==
    IF i > Len(line)
    THEN IF Len(currentMatch) >= 3 THEN Append(out, currentMatch) ELSE out
    ELSE LET tile == line[i] IN
         IF tile = null
         THEN ScanLine(line, i + 1, currentMatch, out)
         ELSE IF currentMatch # <<>> /\ tile.type = currentMatch[1].type
         THEN ScanLine(line, i + 1, Append(currentMatch, tile), out)
         ELSE ScanLine(line, i + 1, <<tile>>,
                       IF Len(currentMatch) >= 3 THEN Append(out, currentMatch) ELSE out)

RowLine(b, row) == [i \in 1..Width |-> getTile(b, i - 1, row)]
ColLine(b, col) == [i \in 1..Height |-> getTile(b, col, i - 1)]

RECURSIVE HorizontalMatches(_, _)
HorizontalMatches(b, row) ==
    IF row >= Height THEN <<>>
    ELSE LET runs == ScanLine(RowLine(b, row), 1, <<>>, <<>>)
         IN  [k \in 1..Len(runs) |->
                 [type |-> "horizontal", tiles |-> runs[k], row |-> row]]
             \o HorizontalMatches(b, row + 1)

RECURSIVE VerticalMatches(_, _)
VerticalMatches(b, col) ==
    IF col >= Width THEN <<>>
    ELSE LET runs == ScanLine(ColLine(b, col), 1, <<>>, <<>>)
         IN  [k \in 1..Len(runs) |->
                 [type |-> "vertical", tiles |-> runs[k], col |-> col]]
             \o VerticalMatches(b, col + 1)

\* Board.findMatches: the horizontal groups row by row, then the vertical ones
findMatches(b) == HorizontalMatches(b, 0) \o VerticalMatches(b, 0)

\* Board.hasMatches
hasMatches(b) == Len(findMatches(b)) > 0

\* all tiles of the groups, group after group (a tile of two groups twice)
RECURSIVE MatchTiles(_)
MatchTiles(matches) ==
    IF matches = <<>> THEN <<>>
    ELSE matches[1].tiles \o MatchTiles(Tail(matches))

RECURSIVE ClearTiles(_, _)
ClearTiles(b, tiles) ==
    IF tiles = <<>> THEN b
    ELSE ClearTiles(setTile(b, tiles[1].col, tiles[1].row, null), Tail(tiles))

\* Board.removeMatches
removeMatches(b, matches) == ClearTiles(b, MatchTiles(matches))

\* the tiles of a column collected from the top row down
RECURSIVE ColumnTilesTopDown(_, _, _)
ColumnTilesTopDown(b, col, row) ==
    IF row < 0 THEN <<>>
    ELSE ColumnTilesTopDown(b, col, row - 1)
         \o (IF getTile(b, col, row) # null THEN <<getTile(b, col, row)>> ELSE <<>>)

\* the tiles of a column from the bottom row up, empty cells left out
RECURSIVE ColumnTiles(_, _, _)
ColumnTiles(b, col, row) ==
    IF row < 0 THEN <<>>
    ELSE (IF getTile(b, col, row) # null THEN <<getTile(b, col, row)>> ELSE <<>>)
         \o ColumnTiles(b, col, row - 1)

RECURSIVE ClearColumn(_, _, _)
ClearColumn(b, col, row) ==
    IF row >= Height THEN b
    ELSE ClearColumn(setTile(b, col, row, null), col, row + 1)

RECURSIVE PlaceColumn(_, _, _, _)
PlaceColumn(b, col, columnTiles, i) ==
    IF i >= Len(columnTiles) THEN b
    ELSE PlaceColumn(setTile(b, col, Height - 1 - i, columnTiles[i + 1]),
                     col, columnTiles, i + 1)

RECURSIVE DropColumns(_, _)
DropColumns(b, col) ==
    IF col >= Width THEN b
    ELSE DropColumns(
            PlaceColumn(ClearColumn(b, col, 0), col, ColumnTiles(b, col, Height - 1), 0),
            col + 1)

\* Board.dropTiles
dropTiles(b) == DropColumns(b, 0)

\* Math.random: draw number k of a stream picks this index among n candidates
\* (Math.floor(Math.random() * n)). A stream starts at the offset
\* stream % Len(TileTypes) and moves on by the stride 1 + stream \div Len(TileTypes)
\* at every draw; the streams a session follows are 0 .. NumSeeds - 1
RandomIndex(stream, k, n) ==
    ((stream % Len(TileTypes)) + ((1 + (stream \div Len(TileTypes))) * k)) % n

Streams == 0..(NumSeeds - 1)

\* the streams followed where one Board method or one cascade is examined:
\* stride 1 from offset 2, and stride 3, which repeats its index among three
\* candidates, from offsets 0 and 1
DrawStreams == {2, 6, 7}

\* the types left in availableTypes, in the order of tileTypes
RECURSIVE Without(_, _)
Without(types, excluded) ==
    IF types = <<>> THEN <<>>
    ELSE (IF types[1] \in excluded THEN <<>> ELSE <<types[1]>>)
         \o Without(Tail(types), excluded)

\* Board.getRandomTileType: availableTypes at (col, row), a type that would
\* complete a run with the two tiles to the left or the two tiles above removed
availableTypes(b, col, row) ==
    LET horizontal ==
            IF col >= 2 /\ b[row][col - 1].type = b[row][col - 2].type
            THEN {b[row][col - 1].type} ELSE {}
        vertical ==
            IF row >= 2 /\ b[row - 1][col].type = b[row - 2][col].type
            THEN {b[row - 1][col].type} ELSE {}
    IN  Without(TileTypes, horizontal \cup vertical)

getRandomTileType(b, col, row, stream, k) ==
    LET available == availableTypes(b, col, row)
    IN  available[RandomIndex(stream, k, Len(available)) + 1]

\* Board.createRandomTile
createRandomTile(b, col, row, stream, k) ==
    Tile(getRandomTileType(b, col, row, stream, k), col, row)

\* the cells in the order fillEmptySpaces visits them: column by column
ColumnMajor == [k \in 1..(Width * Height) |->
                    [col |-> (k - 1) \div Height, row |-> (k - 1) % Height]]
\* the cells in the order fillBoard and shuffle visit them: row by row
RowMajor == [k \in 1..(Width * Height) |->
                    [col |-> (k - 1) % Width, row |-> (k - 1) \div Width]]

\* a new tile in every empty cell, the cells visited in the given order;
\* k counts the draws made from the stream
RECURSIVE FillCells(_, _, _, _, _)
FillCells(b, order, i, stream, k) ==
    IF i > Len(order) THEN b
    ELSE LET col == order[i].col
             row == order[i].row
         IN  IF getTile(b, col, row) # null
             THEN FillCells(b, order, i + 1, stream, k)
             ELSE FillCells(setTile(b, col, row, createRandomTile(b, col, row, stream, k)),
                            order, i + 1, stream, k + 1)

\* Board.fillEmptySpaces
fillEmptySpaces(b, stream) == FillCells(b, ColumnMajor, 1, stream, 1)

\* Board.fillBoard
fillBoard(b, stream) == FillCells(b, RowMajor, 1, stream, 1)

EmptyBoard == [row \in Rows |-> [col \in Cols |-> null]]

IsFull(b) == \A row \in Rows : \A col \in Cols : b[row][col] # null

\* the loop body of removeInitialMatches: every matched tile replaced by a new
\* random tile, in the order of the groups
RECURSIVE ReplaceTiles(_, _, _, _)
ReplaceTiles(b, tiles, stream, k) ==
    IF tiles = <<>> THEN b
    ELSE LET tile == tiles[1]
             newTile == createRandomTile(b, tile.col, tile.row, stream, k)
         IN  ReplaceTiles([b EXCEPT ![tile.row][tile.col] = newTile],
                          Tail(tiles), stream, k + 1)

maxAttempts == 100

\* Board.removeInitialMatches
RECURSIVE removeInitialMatchesFrom(_, _, _, _)
removeInitialMatchesFrom(b, attempts, stream, k) ==
    IF attempts >= maxAttempts THEN b
    ELSE LET matches == findMatches(b) IN
         IF Len(matches) = 0 THEN b
         ELSE removeInitialMatchesFrom(
                 ReplaceTiles(b, MatchTiles(matches), stream, k),
                 attempts + 1, stream, k + Len(MatchTiles(matches)))

removeInitialMatches(b, stream, k) == removeInitialMatchesFrom(b, 0, stream, k)

\* Board.initialize
initialize(stream) ==
    removeInitialMatches(fillBoard(EmptyBoard, stream), stream, (Width * Height) + 1)

\* the tiles of the board, row by row, empty cells left out
RECURSIVE AllTiles(_, _)
AllTiles(b, i) ==
    IF i > Len(RowMajor) THEN <<>>
    ELSE (IF getTile(b, RowMajor[i].col, RowMajor[i].row) # null
          THEN <<getTile(b, RowMajor[i].col, RowMajor[i].row)>> ELSE <<>>)
         \o AllTiles(b, i + 1)

\* the Fisher-Yates loop of shuffle: for i = length - 1 down to 1, exchange
\* allTiles[i] and allTiles[j], j random in 0 .. i (indices from 0 as in the code)
RECURSIVE ShuffleArray(_, _, _)
ShuffleArray(allTiles, i, stream) ==
    IF i <= 0 THEN allTiles
    ELSE LET j == RandomIndex(stream, i, i + 1)
         IN  ShuffleArray([allTiles EXCEPT ![i + 1] = allTiles[j + 1],
                                           ![j + 1] = allTiles[i + 1]],
                          i - 1, stream)

\* the shuffled tiles placed back, row by row, into the cells that hold a tile
RECURSIVE PlaceShuffled(_, _, _, _)
PlaceShuffled(b, allTiles, i, tileIndex) ==
    IF i > Len(RowMajor) THEN b
    ELSE IF getTile(b, RowMajor[i].col, RowMajor[i].row) # null
         THEN PlaceShuffled(setTile(b, RowMajor[i].col, RowMajor[i].row,
                                    allTiles[tileIndex + 1]),
                            allTiles, i + 1, tileIndex + 1)
         ELSE PlaceShuffled(b, allTiles, i + 1, tileIndex)

\* Board.shuffle
shuffle(b, stream) ==
    LET allTiles == AllTiles(b, 1)
        shuffled == ShuffleArray(allTiles, Len(allTiles) - 1, stream)
    IN  removeInitialMatches(PlaceShuffled(b, shuffled, 1, 0), stream, Len(allTiles))


----------------------------------------------------------------------------
(* PuzzleEngine: each method as the state it leaves, from the state s it finds *)

PowerTypes == {"hammer", "bomb", "shuffle", "extra_moves", "color_bomb"}

\* PuzzleEngine.animationSpeed, 300 ms
animationSpeed == 3

\* the delays of the refill timers of executeHammer, executeBomb, executeColorBomb
hammerDelay == 1
bombDelay == 2
colorBombDelay == 3

\* PuzzleEngine.levelConfig[1], scaled to the bounds of the model
levelConfig ==
    [moves |-> LevelMoves,
     objectives |-> [t \in Types |->
                        IF t = "red" THEN RedTarget
                        ELSE IF t = "blue" THEN BlueTarget ELSE 0],
     boardSize |-> [width |-> Width, height |-> Height],
     tileTypes |-> TileTypes]

\* the level numbers a player can ask for, and those PuzzleEngine.levelConfig has
\* an entry for
LevelNumbers == 0..2
ConfiguredLevels == {1}

\* this.levelConfig[levelNumber] || this.levelConfig[1], with no default
configForNoDefault(levelNumber) ==
    IF levelNumber \in ConfiguredLevels
    THEN levelConfig
    ELSE [moves |-> 0,
          objectives |-> [t \in Types |-> 0],
          boardSize |-> [width |-> 0, height |-> 0],
          tileTypes |-> <<>>]

\* this.levelConfig[levelNumber] || this.levelConfig[1]
configFor(levelNumber) ==
    LET configs == [n \in ConfiguredLevels |-> levelConfig]
    IN  IF levelNumber \in DOMAIN configs THEN configs[levelNumber] ELSE configs[1]

\* the state of the program as one record
State ==
    [board |-> board, isPlaying |-> isPlaying, isPaused |-> isPaused,
     isAnimating |-> isAnimating, currentLevel |-> currentLevel,
     movesLeft |-> movesLeft, score |-> score, objectives |-> objectives,
     comboCount |-> comboCount, selectedTile |-> selectedTile,
     inventory |-> inventory, activePowerUp |-> activePowerUp,
     isWaitingForTarget |-> isWaitingForTarget, timers |-> timers,
     levelResult |-> levelResult, completeLevelArgs |-> completeLevelArgs]

\* setTimeout(callback, delay); level records the level that was being played
\* when the timer was set
setTimeout(s, kind, delay) ==
    [s EXCEPT !.timers = Append(@, [kind |-> kind, delay |-> delay, left |-> delay,
                                    level |-> s.currentLevel])]

\* PuzzleEngine.updateObjectives: one step down, not below 0, per tile of a group
RECURSIVE LowerObjectives(_, _)
LowerObjectives(obj, tiles) ==
    IF tiles = <<>> THEN obj
    ELSE LowerObjectives(
            IF obj[tiles[1].type] > 0
            THEN [obj EXCEPT ![tiles[1].type] = @ - 1]
            ELSE obj,
            Tail(tiles))

updateObjectives(obj, matches) == LowerObjectives(obj, MatchTiles(matches))

\* the score of one processMatches iteration
totalScore(matches, combo) == (Len(matches) * 100) + (combo * 50)

\* PuzzleEngine.processMatches
processMatches(s) ==
    LET matches == findMatches(s.board) IN
    IF Len(matches) = 0
    THEN [s EXCEPT !.isAnimating = FALSE]
    ELSE setTimeout(
            [s EXCEPT !.isAnimating = TRUE,
                      !.score = @ + totalScore(matches, s.comboCount),
                      !.comboCount = @ + 1,
                      !.objectives = updateObjectives(@, matches),
                      !.board = removeMatches(@, matches)],
            "dropFill", animationSpeed)

\* PuzzleEngine.checkMatches
checkMatches(s) ==
    IF Len(findMatches(s.board)) > 0 THEN processMatches(s) ELSE s

\* calculateStars with the two thresholds exchanged
calculateStarsThresholdsExchanged(s) ==
    IF s.movesLeft >= 5 THEN 3
    ELSE IF s.movesLeft >= 10 THEN 2
    ELSE 1

\* PuzzleEngine.calculateStars
calculateStars(s) ==
    IF s.movesLeft >= 10 THEN 3
    ELSE IF s.movesLeft >= 5 THEN 2
    ELSE 1

\* endLevel reporting the level to game.completeLevel whatever won is
endLevelAlwaysReports(s, won) ==
    [s EXCEPT !.isPlaying = FALSE,
              !.levelResult = IF won THEN "won" ELSE "lost",
              !.completeLevelArgs = <<s.currentLevel, calculateStars(s), s.score>>]

\* PuzzleEngine.endLevel
endLevel(s, won) ==
    IF won
    THEN [s EXCEPT !.isPlaying = FALSE,
                   !.levelResult = "won",
                   !.completeLevelArgs = <<s.currentLevel, calculateStars(s), s.score>>]
    ELSE [s EXCEPT !.isPlaying = FALSE,
                   !.levelResult = "lost"]

objectivesComplete(s) == \A t \in Types : s.objectives[t] <= 0

\* checkGameEnd with the two tests in the other order
checkGameEndMovesFirst(s) ==
    IF s.movesLeft <= 0 THEN endLevel(s, FALSE)
    ELSE IF objectivesComplete(s) THEN endLevel(s, TRUE)
    ELSE s

\* PuzzleEngine.checkGameEnd
checkGameEnd(s) ==
    IF objectivesComplete(s) THEN endLevel(s, TRUE)
    ELSE IF s.movesLeft <= 0 THEN endLevel(s, FALSE)
    ELSE s

\* PuzzleEngine.update
update(s) ==
    IF s.isPaused \/ s.isAnimating THEN s
    ELSE checkGameEnd(checkMatches(s))

\* PuzzleEngine.gameLoop
gameLoop(s) == IF ~s.isPlaying THEN s ELSE update(s)

\* startLevel that leaves the combo counter and the selection as they were
startLevelKeepsCombo(s, levelNumber, newBoard) ==
    LET config == configFor(levelNumber)
    IN  gameLoop([s EXCEPT !.currentLevel = levelNumber,
                           !.movesLeft = config.moves,
                           !.score = 0,
                           !.objectives = config.objectives,
                           !.isAnimating = FALSE,
                           !.board = newBoard,
                           !.isPlaying = TRUE,
                           !.isPaused = FALSE])

\* startLevel going on with the objectives the session before it has left
startLevelKeepsObjectives(s, levelNumber, newBoard) ==
    LET config == configFor(levelNumber)
    IN  gameLoop([s EXCEPT !.currentLevel = levelNumber,
                           !.movesLeft = config.moves,
                           !.score = 0,
                           !.comboCount = 0,
                           !.selectedTile = <<>>,
                           !.isAnimating = FALSE,
                           !.board = newBoard,
                           !.isPlaying = TRUE,
                           !.isPaused = FALSE])

\* PuzzleEngine.startLevel; newBoard is what board.initialize built
startLevel(s, levelNumber, newBoard) ==
    LET config == configFor(levelNumber)
    IN  gameLoop([s EXCEPT !.currentLevel = levelNumber,
                           !.movesLeft = config.moves,
                           !.score = 0,
                           !.objectives = config.objectives,
                           !.comboCount = 0,
                           !.selectedTile = <<>>,
                           !.isAnimating = FALSE,
                           !.board = newBoard,
                           !.isPlaying = TRUE,
                           !.isPaused = FALSE])

\* PuzzleEngine.canSwapTiles
canSwapTiles(pos1, pos2) ==
    LET dx == IF pos1.col >= pos2.col THEN pos1.col - pos2.col ELSE pos2.col - pos1.col
        dy == IF pos1.row >= pos2.row THEN pos1.row - pos2.row ELSE pos2.row - pos1.row
    IN  (dx = 1 /\ dy = 0) \/ (dx = 0 /\ dy = 1)

\* swapTiles without its test of movesLeft
swapTilesNoMovesTest(s, pos1, pos2) ==
    LET swapped == BoardSwapTiles(s.board, pos1.col, pos1.row, pos2.col, pos2.row)
    IN  IF hasMatches(swapped)
        THEN processMatches([s EXCEPT !.board = swapped, !.movesLeft = @ - 1])
        ELSE [s EXCEPT !.board =
                  BoardSwapTiles(swapped, pos2.col, pos2.row, pos1.col, pos1.row)]

\* PuzzleEngine.swapTiles
swapTiles(s, pos1, pos2) ==
    IF s.movesLeft <= 0 THEN s
    ELSE LET swapped == BoardSwapTiles(s.board, pos1.col, pos1.row, pos2.col, pos2.row)
         IN  IF hasMatches(swapped)
             THEN processMatches([s EXCEPT !.board = swapped, !.movesLeft = @ - 1])
             ELSE [s EXCEPT !.board =
                       BoardSwapTiles(swapped, pos2.col, pos2.row, pos1.col, pos1.row)]

\* PuzzleEngine.handleTileSelection
handleTileSelection(s, position) ==
    IF s.selectedTile = <<>>
    THEN [s EXCEPT !.selectedTile = <<position>>]
    ELSE IF canSwapTiles(s.selectedTile[1], position)
         THEN [swapTiles(s, s.selectedTile[1], position) EXCEPT !.selectedTile = <<>>]
         ELSE [s EXCEPT !.selectedTile = <<position>>]

\* handleClick without its test of isAnimating
handleClickDuringCascade(s, position) ==
    IF ~s.isPlaying \/ s.isPaused THEN s
    ELSE IF getTile(s.board, position.col, position.row) = null THEN s
    ELSE handleTileSelection(s, position)

\* PuzzleEngine.handleClick, the click falling on the cell at position
handleClick(s, position) ==
    IF ~s.isPlaying \/ s.isPaused \/ s.isAnimating THEN s
    ELSE IF getTile(s.board, position.col, position.row) = null THEN s
    ELSE handleTileSelection(s, position)

\* PuzzleEngine.togglePause
togglePause(s) == [s EXCEPT !.isPaused = ~@]

----------------------------------------------------------------------------
(* PowerUps *)

\* canUse without its test of puzzleEngine.isAnimating
canUseDuringCascade(s, powerUpType) ==
    /\ s.inventory[powerUpType] > 0
    /\ s.isPlaying
    /\ ~s.isPaused

\* PowerUps.canUse
canUse(s, powerUpType) ==
    /\ s.inventory[powerUpType] > 0
    /\ s.isPlaying
    /\ ~s.isPaused
    /\ ~s.isAnimating

\* usePowerUp leaving the count as it is
usePowerUpKeepsCount(s, powerUpType) == s

\* usePowerUp taking two from the count, with no test of what is left
usePowerUpTwice(s, powerUpType) ==
    [s EXCEPT !.inventory[powerUpType] = @ - 2]

\* PowerUps.usePowerUp
usePowerUp(s, powerUpType) ==
    IF s.inventory[powerUpType] > 0
    THEN [s EXCEPT !.inventory[powerUpType] = @ - 1]
    ELSE s

\* PowerUps.deactivatePowerUp
deactivatePowerUp(s) ==
    [s EXCEPT !.activePowerUp = "null", !.isWaitingForTarget = FALSE]

\* activateHammer, activateBomb, activateColorBomb
arm(s, powerUpType) ==
    [s EXCEPT !.activePowerUp = powerUpType, !.isWaitingForTarget = TRUE]

\* PowerUps.activateShuffle
activateShuffle(s, stream) ==
    LET used == usePowerUp(s, "shuffle")
    IN  [used EXCEPT !.board = shuffle(@, stream)]

\* activateExtraMoves without the call of usePowerUp
activateExtraMovesUnpaid(s) == [s EXCEPT !.movesLeft = @ + 5]

\* PowerUps.activateExtraMoves
activateExtraMoves(s) ==
    LET used == usePowerUp(s, "extra_moves")
    IN  [used EXCEPT !.movesLeft = @ + 5]

\* PowerUps.activatePowerUp; stream is the random stream a shuffle draws from
activatePowerUp(s, powerUpType, stream) ==
    IF ~canUse(s, powerUpType) THEN s
    ELSE IF powerUpType = "shuffle" THEN activateShuffle(s, stream)
    ELSE IF powerUpType = "extra_moves" THEN activateExtraMoves(s)
    ELSE arm(s, powerUpType)

\* what PowerUps.activatePowerUp returns: false when canUse refuses, true after
\* the switch for each of the five kinds
activatePowerUpResult(s, powerUpType) == canUse(s, powerUpType)

\* lowerObjective without Math.max(0, ...)
lowerObjectiveNoFloor(obj, type, n) ==
    IF obj[type] # 0 THEN [obj EXCEPT ![type] = @ - n] ELSE obj

\* one step down, not below 0, where the type has an objective left
lowerObjective(obj, type, n) ==
    IF obj[type] # 0
    THEN [obj EXCEPT ![type] = IF @ - n > 0 THEN @ - n ELSE 0]
    ELSE obj

\* executeHammer charging a move for the tile it removes
executeHammerSpendsMove(s, col, row) ==
    LET used == usePowerUp(s, "hammer")
    IN  setTimeout(
            [used EXCEPT !.board = setTile(@, col, row, null),
                         !.movesLeft = @ - 1],
            "refill", hammerDelay)

\* PowerUps.executeHammer: the cell is cleared first, so the tile read for the
\* objectives is the empty cell and no objective changes
executeHammer(s, col, row) ==
    LET used == usePowerUp(s, "hammer")
        cleared == setTile(used.board, col, row, null)
        tile == getTile(cleared, col, row)
    IN  setTimeout(
            [used EXCEPT !.board = cleared,
                         !.objectives =
                             IF tile # null THEN lowerObjective(@, tile.type, 1) ELSE @],
            "refill", hammerDelay)

\* the target and its four neighbours in place of the 3 x 3 area
BombAreaCross(col, row) ==
    <<[col |-> col, row |-> row - 1], [col |-> col - 1, row |-> row],
      [col |-> col, row |-> row], [col |-> col + 1, row |-> row],
      [col |-> col, row |-> row + 1]>>

\* the cells of the 3 x 3 area around (col, row), row by row, as executeBomb
\* visits them
BombArea(col, row) ==
    [k \in 1..9 |-> [col |-> (col - 1) + ((k - 1) % 3), row |-> (row - 1) + ((k - 1) \div 3)]]

\* tilesToRemove of executeBomb: the tiles found in the area
RECURSIVE TilesIn(_, _, _)
TilesIn(b, cells, k) ==
    IF k > Len(cells) THEN <<>>
    ELSE (IF getTile(b, cells[k].col, cells[k].row) # null
          THEN <<getTile(b, cells[k].col, cells[k].row)>> ELSE <<>>)
         \o TilesIn(b, cells, k + 1)

RECURSIVE LowerEach(_, _)
LowerEach(obj, tiles) ==
    IF tiles = <<>> THEN obj
    ELSE LowerEach(lowerObjective(obj, tiles[1].type, 1), Tail(tiles))

\* PowerUps.executeBomb
executeBomb(s, col, row) ==
    LET used == usePowerUp(s, "bomb")
        tilesToRemove == TilesIn(used.board, BombArea(col, row), 1)
    IN  setTimeout(
            [used EXCEPT !.board = ClearTiles(@, tilesToRemove),
                         !.objectives = LowerEach(@, tilesToRemove),
                         !.score = @ + (Len(tilesToRemove) * 50)],
            "refill", bombDelay)

\* the first tile of the type alone
FirstTileOfType(b, tileType) ==
    LET found == SelectSeq(AllTiles(b, 1), LAMBDA tile : tile.type = tileType)
    IN  IF found = <<>> THEN <<>> ELSE <<found[1]>>

\* tilesToRemove of executeColorBomb: the tiles of the type, row by row
TilesOfType(b, tileType) ==
    SelectSeq(AllTiles(b, 1), LAMBDA tile : tile.type = tileType)

\* PowerUps.executeColorBomb
executeColorBomb(s, tileType) ==
    LET used == usePowerUp(s, "color_bomb")
        tilesToRemove == TilesOfType(used.board, tileType)
    IN  setTimeout(
            [used EXCEPT !.board = ClearTiles(@, tilesToRemove),
                         !.objectives = lowerObjective(@, tileType, Len(tilesToRemove)),
                         !.score = @ + (Len(tilesToRemove) * 75)],
            "refill", colorBombDelay)

\* PowerUps.handleTileClick
handleTileClick(s, col, row) ==
    IF ~s.isWaitingForTarget \/ s.activePowerUp = "null" THEN s
    ELSE LET tile == getTile(s.board, col, row) IN
         IF tile = null THEN s
         ELSE deactivatePowerUp(
                 IF s.activePowerUp = "hammer" THEN executeHammer(s, col, row)
                 ELSE IF s.activePowerUp = "bomb" THEN executeBomb(s, col, row)
                 ELSE IF s.activePowerUp = "color_bomb" THEN executeColorBomb(s, tile.type)
                 ELSE s)

----------------------------------------------------------------------------
(* Timer callbacks *)

\* the callback processMatches sets: gravity and refill, then the rescan timer
dropFillCallback(s, stream) ==
    setTimeout([s EXCEPT !.board = fillEmptySpaces(dropTiles(@), stream)],
               "rescan", animationSpeed)

\* the inner callback without its checkMatches call
rescanCallbackNoCheck(s) == [s EXCEPT !.isAnimating = FALSE]

\* the callback set by the callback above: the cascade's next round
rescanCallback(s) == checkMatches([s EXCEPT !.isAnimating = FALSE])

\* the callback of executeHammer, executeBomb and executeColorBomb
refillCallback(s, stream) ==
    [s EXCEPT !.board = fillEmptySpaces(dropTiles(@), stream)]

RemoveAt(seq, i) == [k \in 1..(Len(seq) - 1) |-> IF k < i THEN seq[k] ELSE seq[k + 1]]

----------------------------------------------------------------------------
(* The state machine *)

\* new PuzzleEngine(game): movesLeft 25, no objectives, a board already filled;
\* new PowerUps(engine) with the inventory of the saved game
InitialMoves == 25

RECURSIVE Total(_, _)
Total(inv, kinds) ==
    IF kinds = {} THEN 0
    ELSE LET kind == CHOOSE x \in kinds : TRUE
         IN  inv[kind] + Total(inv, kinds \ {kind})

\* PowerUps.loadInventoryData: the inventories a saved game can hold
SavedInventories ==
    {inv \in [PowerTypes -> 0..SavedPowerUps] : Total(inv, PowerTypes) <= SavedPowerUps}

Init ==
    /\ \E stream \in Streams : board = initialize(stream)
    /\ isPlaying = FALSE
    /\ isPaused = FALSE
    /\ isAnimating = FALSE
    /\ currentLevel = 1
    /\ movesLeft = InitialMoves
    /\ score = 0
    /\ objectives = [t \in Types |-> 0]
    /\ comboCount = 0
    /\ selectedTile = <<>>
    /\ inventory \in SavedInventories
    /\ activePowerUp = "null"
    /\ isWaitingForTarget = FALSE
    /\ timers = <<>>
    /\ levelResult = "none"
    /\ completeLevelArgs = <<>>
    /\ lastOp = "construct"

\* the handler named op ran and left the state s; lastOp names the last handler
\* that changed the board or the session (selecting a tile, arming a power-up and
\* pausing leave it as it is)
Becomes(s, op) ==
    /\ s.comboCount <= MaxCombo
    /\ Len(s.timers) <= MaxTimers
    /\ board' = s.board
    /\ isPlaying' = s.isPlaying
    /\ isPaused' = s.isPaused
    /\ isAnimating' = s.isAnimating
    /\ currentLevel' = s.currentLevel
    /\ movesLeft' = s.movesLeft
    /\ score' = s.score
    /\ objectives' = s.objectives
    /\ comboCount' = s.comboCount
    /\ selectedTile' = s.selectedTile
    /\ inventory' = s.inventory
    /\ activePowerUp' = s.activePowerUp
    /\ isWaitingForTarget' = s.isWaitingForTarget
    /\ timers' = s.timers
    /\ levelResult' = s.levelResult
    /\ completeLevelArgs' = s.completeLevelArgs
    /\ lastOp' = IF s = State THEN lastOp ELSE op

\* Game.startLevel -> PuzzleEngine.startLevel(levelNumber), from the level grid of
\* the menu and from the replay and retry buttons shown when a level has ended
StartLevel(levelNumber) ==
    /\ ~isPlaying
    /\ \E stream \in Streams :
        Becomes([startLevel(State, levelNumber, initialize(stream))
                    EXCEPT !.levelResult = "none", !.completeLevelArgs = <<>>],
                "startLevel")

\* what a click on the canvas did
ClickOp(s, position) ==
    IF ~s.isPlaying \/ s.isPaused \/ s.isAnimating
          \/ getTile(s.board, position.col, position.row) = null
    THEN lastOp
    ELSE IF s.selectedTile = <<>> \/ ~canSwapTiles(s.selectedTile[1], position)
    THEN lastOp
    ELSE IF s.movesLeft <= 0 THEN "swapRefused"
    ELSE IF hasMatches(BoardSwapTiles(s.board, s.selectedTile[1].col,
                                      s.selectedTile[1].row, position.col, position.row))
    THEN "swapMatched"
    ELSE "swapReverted"

\* a click or touch on the canvas
HandleClick(position) ==
    Becomes(handleClick(State, position), ClickOp(State, position))

\* one animation frame
GameLoop ==
    /\ isPlaying
    /\ Becomes(gameLoop(State), "update")

\* the pause button
TogglePause ==
    Becomes(togglePause(State), lastOp)

\* a power-up button
ActivatePowerUp(powerUpType) ==
    \E stream \in Streams :
        Becomes(activatePowerUp(State, powerUpType, stream),
                IF canUse(State, powerUpType) /\ powerUpType \in {"shuffle", "extra_moves"}
                THEN powerUpType ELSE lastOp)

\* a tile click handed to the power-ups
HandleTileClick(position) ==
    Becomes(handleTileClick(State, position.col, position.row),
            IF ~isWaitingForTarget \/ activePowerUp = "null"
                  \/ getTile(board, position.col, position.row) = null
            THEN lastOp
            ELSE activePowerUp)

\* 100 ms pass; no timer is overdue
Advance ==
    /\ timers # <<>>
    /\ \A i \in 1..Len(timers) : timers[i].left > 0
    /\ timers' = [i \in 1..Len(timers) |-> [timers[i] EXCEPT !.left = @ - 1]]
    /\ UNCHANGED <<board, isPlaying, isPaused, isAnimating, currentLevel, movesLeft,
                   score, objectives, comboCount, selectedTile, inventory,
                   activePowerUp, isWaitingForTarget, levelResult,
                   completeLevelArgs, lastOp>>

\* timer i is due, and no timer set before it with the same delay is
Due(i) ==
    /\ timers[i].left = 0
    /\ \A j \in 1..(i - 1) : ~(timers[j].left = 0 /\ timers[j].delay = timers[i].delay)

Fired(i) == [State EXCEPT !.timers = RemoveAt(@, i)]

DropFillTimer ==
    \E i \in 1..Len(timers) :
        /\ Due(i)
        /\ timers[i].kind = "dropFill"
        /\ \E stream \in Streams : Becomes(dropFillCallback(Fired(i), stream), "dropFill")

RescanTimer ==
    \E i \in 1..Len(timers) :
        /\ Due(i)
        /\ timers[i].kind = "rescan"
        /\ Becomes(rescanCallback(Fired(i)), "rescan")

RefillTimer ==
    \E i \in 1..Len(timers) :
        /\ Due(i)
        /\ timers[i].kind = "refill"
        /\ \E stream \in Streams : Becomes(refillCallback(Fired(i), stream), "refill")

Next ==
    \/ \E levelNumber \in 1..MaxLevel : StartLevel(levelNumber)
    \/ \E position \in Positions : HandleClick(position)
    \/ GameLoop
    \/ TogglePause
    \/ \E powerUpType \in PowerTypes : ActivatePowerUp(powerUpType)
    \/ \E position \in Targets : HandleTileClick(position)
    \/ Advance
    \/ DropFillTimer
    \/ RescanTimer
    \/ RefillTimer

Spec == Init /\ [][Next]_vars

----------------------------------------------------------------------------
(* A session played with power-ups only, from a saved inventory of two *)

\* PowerUps.loadInventoryData: saved inventories of two area power-ups
AreaInventories ==
    {inv \in [PowerTypes -> 0..2] :
        /\ inv["bomb"] + inv["color_bomb"] = 2
        /\ \A kind \in PowerTypes \ {"bomb", "color_bomb"} : inv[kind] = 0}

PowerUpInit ==
    /\ \E stream \in Streams : board = initialize(stream)
    /\ isPlaying = FALSE
    /\ isPaused = FALSE
    /\ isAnimating = FALSE
    /\ currentLevel = 1
    /\ movesLeft = InitialMoves
    /\ score = 0
    /\ objectives = [t \in Types |-> 0]
    /\ comboCount = 0
    /\ selectedTile = <<>>
    /\ inventory \in AreaInventories
    /\ activePowerUp = "null"
    /\ isWaitingForTarget = FALSE
    /\ timers = <<>>
    /\ levelResult = "none"
    /\ completeLevelArgs = <<>>
    /\ lastOp = "construct"

PowerUpNext ==
    \/ \E levelNumber \in 1..MaxLevel : StartLevel(levelNumber)
    \/ GameLoop
    \/ \E powerUpType \in PowerTypes : ActivatePowerUp(powerUpType)
    \/ \E position \in Targets : HandleTileClick(position)
    \/ Advance
    \/ DropFillTimer
    \/ RescanTimer
    \/ RefillTimer

PowerUpSpec == PowerUpInit /\ [][PowerUpNext]_vars

----------------------------------------------------------------------------
(* A Board on its own: one method called on a board set up cell by cell *)

\* the cells set up freely with setTile: row 0 and column 0
Window == {p \in Positions : p.row = 0 \/ p.col = 0}

\* what a cell of the window is set to
CellKinds == {"empty", "red", "blue", "special", "matched"}

CellOfKind(kind, col, row) ==
    CASE kind = "empty" -> null
      [] kind = "special" -> makeSpecial(Tile("red", col, row))
      [] kind = "matched" -> match(Tile("red", col, row))
      [] OTHER -> Tile(kind, col, row)

\* the tiles of the other cells: green and red in turn, no three in a line
Background(col, row) ==
    Tile(IF (col + row) % 2 = 0 THEN "green" ELSE "red", col, row)

InputBoards ==
    {[row \in Rows |-> [col \in Cols |->
            IF [col |-> col, row |-> row] \in Window
            THEN CellOfKind(kinds[[col |-> col, row |-> row]], col, row)
            ELSE Background(col, row)]] :
        kinds \in [Window -> CellKinds]}

BoardInit ==
    /\ board \in InputBoards
    /\ isPlaying = FALSE
    /\ isPaused = FALSE
    /\ isAnimating = FALSE
    /\ currentLevel = 1
    /\ movesLeft = InitialMoves
    /\ score = 0
    /\ objectives = [t \in Types |-> 0]
    /\ comboCount = 0
    /\ selectedTile = <<>>
    /\ inventory = [kind \in PowerTypes |-> 0]
    /\ activePowerUp = "null"
    /\ isWaitingForTarget = FALSE
    /\ timers = <<>>
    /\ levelResult = "none"
    /\ completeLevelArgs = <<>>
    /\ lastOp = "construct"

\* the method named op was called on the board as set up and left the board b
BoardBecomes(b, op) ==
    /\ lastOp = "construct"
    /\ board' = b
    /\ lastOp' = op
    /\ UNCHANGED <<isPlaying, isPaused, isAnimating, currentLevel, movesLeft, score,
                   objectives, comboCount, selectedTile, inventory, activePowerUp,
                   isWaitingForTarget, timers, levelResult, completeLevelArgs>>

BoardRemoveMatches == BoardBecomes(removeMatches(board, findMatches(board)), "removeMatches")

BoardDropTiles == BoardBecomes(dropTiles(board), "dropTiles")

BoardFillEmptySpaces ==
    \E stream \in DrawStreams : BoardBecomes(fillEmptySpaces(board, stream), "fillEmptySpaces")

BoardShuffle ==
    \E stream \in DrawStreams : BoardBecomes(shuffle(board, stream), "shuffle")

BoardInitialize ==
    \E stream \in DrawStreams : BoardBecomes(initialize(stream), "initialize")

BoardNext ==
    \/ BoardRemoveMatches
    \/ BoardDropTiles
    \/ BoardFillEmptySpaces
    \/ BoardShuffle
    \/ BoardInitialize

BoardSpec == BoardInit /\ [][BoardNext]_vars

----------------------------------------------------------------------------
(* One swap and the cascade it starts *)

CascadeInit ==
    /\ \E stream \in DrawStreams : board = initialize(stream)
    /\ isPlaying = FALSE
    /\ isPaused = FALSE
    /\ isAnimating = FALSE
    /\ currentLevel = 1
    /\ movesLeft = InitialMoves
    /\ score = 0
    /\ objectives = [t \in Types |-> 0]
    /\ comboCount = 0
    /\ selectedTile = <<>>
    /\ inventory = [kind \in PowerTypes |-> 0]
    /\ activePowerUp = "null"
    /\ isWaitingForTarget = FALSE
    /\ timers = <<>>
    /\ levelResult = "none"
    /\ completeLevelArgs = <<>>
    /\ lastOp = "construct"

\* the handler named op ran and left the state s; the cascade is followed for
\* one iteration of processMatches more than the board has cells
CascadeBecomes(s, op) ==
    /\ s.comboCount <= (Width * Height) + 1
    /\ Len(s.timers) <= MaxTimers
    /\ board' = s.board
    /\ isPlaying' = s.isPlaying
    /\ isPaused' = s.isPaused
    /\ isAnimating' = s.isAnimating
    /\ currentLevel' = s.currentLevel
    /\ movesLeft' = s.movesLeft
    /\ score' = s.score
    /\ objectives' = s.objectives
    /\ comboCount' = s.comboCount
    /\ selectedTile' = s.selectedTile
    /\ inventory' = s.inventory
    /\ activePowerUp' = s.activePowerUp
    /\ isWaitingForTarget' = s.isWaitingForTarget
    /\ timers' = s.timers
    /\ levelResult' = s.levelResult
    /\ completeLevelArgs' = s.completeLevelArgs
    /\ lastOp' = IF s = State THEN lastOp ELSE op

\* PuzzleEngine.startLevel(1), once
CascadeStartLevel ==
    /\ ~isPlaying
    /\ lastOp = "construct"
    /\ \E stream \in DrawStreams :
        CascadeBecomes(startLevel(State, 1, initialize(stream)), "startLevel")

\* a click or touch on the canvas, until a swap has matched
CascadeClick(position) ==
    /\ comboCount = 0
    /\ CascadeBecomes(handleClick(State, position), ClickOp(State, position))

CascadeDropFillTimer ==
    \E i \in 1..Len(timers) :
        /\ Due(i)
        /\ timers[i].kind = "dropFill"
        /\ \E stream \in DrawStreams :
            CascadeBecomes(dropFillCallback(Fired(i), stream), "dropFill")

CascadeRescanTimer ==
    \E i \in 1..Len(timers) :
        /\ Due(i)
        /\ timers[i].kind = "rescan"
        /\ CascadeBecomes(rescanCallback(Fired(i)), "rescan")

CascadeNext ==
    \/ CascadeStartLevel
    \/ \E position \in Positions : CascadeClick(position)
    \/ Advance
    \/ CascadeDropFillTimer
    \/ CascadeRescanTimer

CascadeSpec == CascadeInit /\ [][CascadeNext]_vars

----------------------------------------------------------------------------
(* A level played with power-ups and one swap on boards that offer a       *)
(* matching swap                                                           *)

\* PowerUps.loadInventoryData: saved inventories of one power-up at most
PlayInventories ==
    {inv \in [PowerTypes -> 0..1] : Total(inv, PowerTypes) <= 1}

PlayInit ==
    /\ \E stream \in DrawStreams : board = initialize(stream)
    /\ isPlaying = FALSE
    /\ isPaused = FALSE
    /\ isAnimating = FALSE
    /\ currentLevel = 1
    /\ movesLeft = InitialMoves
    /\ score = 0
    /\ objectives = [t \in Types |-> 0]
    /\ comboCount = 0
    /\ selectedTile = <<>>
    /\ inventory \in PlayInventories
    /\ activePowerUp = "null"
    /\ isWaitingForTarget = FALSE
    /\ timers = <<>>
    /\ levelResult = "none"
    /\ completeLevelArgs = <<>>
    /\ lastOp = "construct"

\* PuzzleEngine.startLevel(1), once
PlayStartLevel ==
    /\ ~isPlaying
    /\ lastOp = "construct"
    /\ \E stream \in DrawStreams :
        Becomes([startLevel(State, 1, initialize(stream))
                    EXCEPT !.levelResult = "none", !.completeLevelArgs = <<>>],
                "startLevel")

\* a click or touch on the canvas, until the first cascade has begun
PlayClick(position) ==
    /\ comboCount = 0
    /\ HandleClick(position)

PlayActivatePowerUp(powerUpType) ==
    \E stream \in DrawStreams :
        Becomes(activatePowerUp(State, powerUpType, stream),
                IF canUse(State, powerUpType) /\ powerUpType \in {"shuffle", "extra_moves"}
                THEN powerUpType ELSE lastOp)

PlayDropFillTimer ==
    \E i \in 1..Len(timers) :
        /\ Due(i)
        /\ timers[i].kind = "dropFill"
        /\ \E stream \in DrawStreams : Becomes(dropFillCallback(Fired(i), stream), "dropFill")

PlayRefillTimer ==
    \E i \in 1..Len(timers) :
        /\ Due(i)
        /\ timers[i].kind = "refill"
        /\ \E stream \in DrawStreams : Becomes(refillCallback(Fired(i), stream), "refill")

PlayNext ==
    \/ PlayStartLevel
    \/ \E position \in Positions : PlayClick(position)
    \/ GameLoop
    \/ TogglePause
    \/ \E powerUpType \in PowerTypes : PlayActivatePowerUp(powerUpType)
    \/ \E position \in Targets : HandleTileClick(position)
    \/ Advance
    \/ PlayDropFillTimer
    \/ RescanTimer
    \/ PlayRefillTimer

PlaySpec == PlayInit /\ [][PlayNext]_vars

----------------------------------------------------------------------------
(* Levels played one after another: a level that has ended is started again,
   or the next one is, and the new level is played with one swap *)

\* Game.startLevel(levelNumber) from the level grid, replayLevel and retryLevel
ReplayStartLevel(levelNumber) ==
    /\ ~isPlaying
    /\ \E stream \in DrawStreams :
        Becomes([startLevel(State, levelNumber, initialize(stream))
                    EXCEPT !.levelResult = "none", !.completeLevelArgs = <<>>],
                "startLevel")

ReplayNext ==
    \/ \E levelNumber \in 1..2 : ReplayStartLevel(levelNumber)
    \/ \E position \in Positions : PlayClick(position)
    \/ GameLoop
    \/ \E powerUpType \in PowerTypes : PlayActivatePowerUp(powerUpType)
    \/ \E position \in Targets : HandleTileClick(position)
    \/ Advance
    \/ PlayDropFillTimer
    \/ RescanTimer
    \/ PlayRefillTimer

ReplaySpec == PlayInit /\ [][ReplayNext]_vars

----------------------------------------------------------------------------
(* new Board(puzzleEngine, width, height): the Board object with its width and
   height fields, from the constructor's assignments to the end of its
   initialize() call *)

\* the widths and heights a Board is asked for
MaxDimension == 10
Dimensions == 1..MaxDimension

\* Board.isValidPosition on a Board object
isValidPosition(boardObject, col, row) ==
    col >= 0 /\ col < boardObject.width /\ row >= 0 /\ row < boardObject.height

\* the Board object when the constructor returns: this.width = width and
\* this.height = height (lines 8-9), then this.initialize() without arguments
\* (line 19), whose parameters take their defaults (8 and 8 in the code, Width
\* and Height here) and are assigned to this.width and this.height (lines 23-24)
BoardConstructor(width, height, stream) ==
    LET assigned == [width |-> width, height |-> height, tiles |-> <<>>]
    IN  [assigned EXCEPT !.width = Width,
                         !.height = Height,
                         !.tiles = initialize(stream)]

\* the constructor has assigned this.width, this.height and this.tiles = []
ConstructInit ==
    /\ board \in [width : Dimensions, height : Dimensions, tiles : {<<>>}]
    /\ isPlaying = FALSE
    /\ isPaused = FALSE
    /\ isAnimating = FALSE
    /\ currentLevel = 1
    /\ movesLeft = InitialMoves
    /\ score = 0
    /\ objectives = [t \in Types |-> 0]
    /\ comboCount = 0
    /\ selectedTile = <<>>
    /\ inventory = [kind \in PowerTypes |-> 0]
    /\ activePowerUp = "null"
    /\ isWaitingForTarget = FALSE
    /\ timers = <<>>
    /\ levelResult = "none"
    /\ completeLevelArgs = <<>>
    /\ lastOp = "construct"

\* the constructor runs to its end
ConstructBoard ==
    \E stream \in Streams \cup DrawStreams :
        BoardBecomes(BoardConstructor(board.width, board.height, stream), "new Board")

ConstructNext == ConstructBoard

ConstructSpec == ConstructInit /\ [][ConstructNext]_vars

----------------------------------------------------------------------------
(* What the claims speak of *)

AdjacentPairs == {pair \in Positions \X Positions : canSwapTiles(pair[1], pair[2])}

Exchanged(pair) ==
    BoardSwapTiles(board, pair[1].col, pair[1].row, pair[2].col, pair[2].row)

\* the states in which processMatches can be entered from the current state with
\* a match on the board: by swapTiles after a click, or by checkMatches
ProcessMatchesCalls ==
    {[State EXCEPT !.board = Exchanged(pair), !.movesLeft = @ - 1] :
        pair \in {q \in AdjacentPairs :
                    /\ isPlaying /\ ~isPaused /\ ~isAnimating /\ movesLeft > 0
                    /\ hasMatches(Exchanged(q))}}
    \cup (IF hasMatches(board) THEN {State} ELSE {})

\* the cells of the tiles of a sequence
CellsOf(tiles) == {<<tiles[i].col, tiles[i].row>> : i \in 1..Len(tiles)}

\* the tiles of a type in a sequence
OfType(tiles, type) == SelectSeq(tiles, LAMBDA tile : tile.type = type)

Min(a, b) == IF a <= b THEN a ELSE b
Max(a, b) == IF a >= b THEN a ELSE b

\* C1: when the rescan callback has ended a cascade (isAnimating is false again),
\* findMatches finds no match group on the board
C1_Quiescence ==
    (lastOp = "rescan" /\ ~isAnimating) => ~hasMatches(board)

\* a swap spent a move and its cascade ran two iterations before it ended
C1_Witness ==
    /\ lastOp = "rescan"
    /\ ~isAnimating
    /\ movesLeft = LevelMoves - 1
    /\ comboCount = 2

\* C2: while the engine accepts input (isPlaying, not isAnimating) every cell of
\* the board holds a tile
C2_FullWhenAcceptingInput ==
    (isPlaying /\ ~isAnimating) => IsFull(board)

\* C3: for adjacent positions whose exchange leaves no match on the board,
\* swapTiles leaves every cell, movesLeft and score as they were
C3_RevertRoundTrip ==
    \A pair \in AdjacentPairs :
        ~hasMatches(Exchanged(pair)) =>
            LET after == swapTiles(State, pair[1], pair[2])
            IN  /\ after.board = board
                /\ after.movesLeft = movesLeft
                /\ after.score = score

\* a swap was tried and taken back in a level where nothing else had happened
C3_Witness ==
    /\ lastOp = "swapReverted"
    /\ isPlaying
    /\ movesLeft = LevelMoves
    /\ score = 0
    /\ IsFull(board)

\* C4: movesLeft goes down only in a swap that leaves a match, and then by
\* exactly 1; no power-up and no cascade step lowers it (startLevel sets it anew)
C4_MovesSpentOnlyBySwap ==
    [][(movesLeft' < movesLeft /\ lastOp' # "startLevel") =>
            (lastOp' = "swapMatched" /\ movesLeft' = movesLeft - 1)]_vars

\* a matching swap has spent the first move of the level
C4_Witness ==
    /\ lastOp = "swapMatched"
    /\ movesLeft = LevelMoves - 1
    /\ isAnimating

\* C5: a matching swap starts its cascade with comboCount 0, so that after the
\* first iteration, run inside swapTiles, comboCount is 1
C5_ComboResetOnSwap ==
    (lastOp = "swapMatched") => (comboCount = 1)

\* the tiles counted by the groups findMatches finds on a board
TileCount(b) == Len(MatchTiles(findMatches(b)))

\* what one processMatches call adds to the score
ScoreGain(call) == processMatches(call).score - call.score

\* C6: the score of an iteration is tiles * base + comboCount * bonus, so at the
\* same comboCount a match of more tiles scores more than one of fewer tiles
C6_ScoreGrowsWithTiles ==
    \A c1, c2 \in ProcessMatchesCalls :
        (TileCount(c1.board) > TileCount(c2.board)) => (ScoreGain(c1) > ScoreGain(c2))

\* C7: no objective counter goes up after startLevel has set it, and none is
\* ever below 0
C7_ObjectivesOnlyFall ==
    [][/\ \A t \in Types : objectives'[t] >= 0
       /\ (lastOp' # "startLevel") => \A t \in Types : objectives'[t] <= objectives[t]]_vars

\* matches and a power-up have both lowered objectives in a running level
C7_Witness ==
    /\ isPlaying
    /\ objectives["red"] < RedTarget
    /\ objectives["blue"] = 0
    /\ score > 0

\* C8: a processMatches call lowers each type's objective by the number of
\* distinct tiles of the type it removes, not below 0
C8_EachTileCountsOnce ==
    \A call \in ProcessMatchesCalls :
        \A t \in Types :
            LET removed == Cardinality(CellsOf(OfType(MatchTiles(findMatches(call.board)), t)))
            IN  call.objectives[t] - processMatches(call).objectives[t]
                    = Min(call.objectives[t], removed)

\* the number of tiles of a type on a board
CountOfType(b, type) ==
    Cardinality({p \in Positions : getTile(b, p.col, p.row).type = type})

\* C9: a hammer, bomb or color bomb lowers each type's objective by the number
\* of tiles of the type it removes, not below 0
C9_PowerUpLowersObjectives ==
    (isWaitingForTarget /\ activePowerUp \in {"hammer", "bomb", "color_bomb"}) =>
        \A p \in Positions :
            (getTile(board, p.col, p.row) # null) =>
                LET after == handleTileClick(State, p.col, p.row)
                IN  \A t \in Types :
                        after.objectives[t] =
                            Max(0, objectives[t]
                                     - (CountOfType(board, t) - CountOfType(after.board, t)))

\* C10: checkGameEnd with every objective at 0 ends the level as won, whatever
\* movesLeft is: isPlaying false and completeLevel(currentLevel, stars, score)
C10_WonWhenObjectivesMet ==
    objectivesComplete(State) =>
        LET after == checkGameEnd(State)
        IN  /\ ~after.isPlaying
            /\ after.levelResult = "won"
            /\ after.completeLevelArgs = <<currentLevel, calculateStars(State), score>>

\* update ended a level as won on the last move
C10_Witness ==
    /\ lastOp = "update"
    /\ levelResult = "won"
    /\ ~isPlaying
    /\ movesLeft = 0
    /\ completeLevelArgs = <<currentLevel, 1, score>>

\* C11: checkGameEnd with movesLeft at 0 and an objective above 0 ends the level
\* as lost (isPlaying false, completeLevel not called); with movesLeft above 0
\* and an objective above 0 it changes nothing
C11_LostWhenOutOfMoves ==
    ~objectivesComplete(State) =>
        LET after == checkGameEnd(State)
        IN  IF movesLeft <= 0
            THEN /\ ~after.isPlaying
                 /\ after.levelResult = "lost"
                 /\ after.completeLevelArgs = completeLevelArgs
            ELSE after = State

\* the last move was spent on a matching swap, its cascade left the red
\* objective above 0, and update ended the level as lost
C11_Witness ==
    /\ lastOp = "update"
    /\ levelResult = "lost"
    /\ ~isPlaying
    /\ movesLeft = 0
    /\ objectives["red"] > 0
    /\ score > 0
    /\ completeLevelArgs = <<>>

\* C12: when update has ended a level, no cell of the board is empty, findMatches
\* finds nothing and no timer of a swap or a power-up is pending
C12_QuiescentAtLevelEnd ==
    (lastOp = "update" /\ levelResult # "none") =>
        /\ IsFull(board)
        /\ ~hasMatches(board)
        /\ timers = <<>>

\* the moves a level can be won with
MovesRange == 0..(InitialMoves + 5)

C14_NoSpecialInMatches ==
    LET matches == findMatches(board) IN
    \A k \in 1..Len(matches) :
        \A i \in 1..Len(matches[k].tiles) : ~matches[k].tiles[i].isSpecial

\* the tiles on the board
TilesOn(b) == {b[p.row][p.col] : p \in Positions} \ {null}

\* C15: tile.canMatch(other) is true exactly when other exists, neither tile is
\* special, neither is matched already and both have one type; it is false for
\* a null other and whenever one of the two is special.
C15_CanMatchExcludesSpecial ==
    \A tile \in TilesOn(board) : \A other \in TilesOn(board) \cup {null} :
        canMatch(tile, other) <=>
            /\ other # null
            /\ ~tile.isSpecial /\ ~other.isSpecial
            /\ ~tile.isMatched /\ ~other.isMatched
            /\ tile.type = other.type


\* the tiles of a line from place from to place to
Run(line, from, to) == [i \in 1..(to - from + 1) |-> line[from + i - 1]]

\* the maximal runs of three or more tiles of one type in a line without holes
MaximalRuns(line) ==
    {Run(line, from, to) : <<from, to>> \in
        {r \in (1..Len(line)) \X (1..Len(line)) :
            /\ r[2] - r[1] + 1 >= 3
            /\ \A i \in r[1]..r[2] : line[i].type = line[r[1]].type
            /\ r[1] > 1 => line[r[1] - 1].type # line[r[1]].type
            /\ r[2] < Len(line) => line[r[2] + 1].type # line[r[1]].type}}

\* the groups the maximal runs of a full board make
ExpectedGroups(b) ==
    UNION {{[type |-> "horizontal", tiles |-> run, row |-> row] :
                run \in MaximalRuns(RowLine(b, row))} : row \in Rows}
    \cup
    UNION {{[type |-> "vertical", tiles |-> run, col |-> col] :
                run \in MaximalRuns(ColLine(b, col))} : col \in Cols}

Survivors(b, col) ==
    LET kept == SelectSeq(ColLine(b, col), LAMBDA tile : tile # null)
    IN  [i \in 1..Len(kept) |-> [kept[i] EXCEPT !.row = 0]]

\* the tiles of a column fill its bottom rows and know their place
BottomContiguous(b, col) ==
    \A row \in Rows :
        /\ (b[row][col] # null /\ row + 1 < Height) => b[row + 1][col] # null
        /\ b[row][col] # null => (b[row][col].col = col /\ b[row][col].row = row)

\* C17: after Board.dropTiles the surviving tiles of every column are the same
\* tiles in the same vertical order as before, they fill the bottom rows of the
\* column without a gap, and every empty cell of the column is above them.
C17_GravityKeepsOrder ==
    [][lastOp' = "dropTiles" =>
         \A col \in Cols :
            /\ Survivors(board', col) = Survivors(board, col)
            /\ BottomContiguous(board', col)]_vars

\* dropTiles has left column 0 with an empty top cell above a blue tile above
\* a special red tile
C17_Witness ==
    /\ lastOp = "dropTiles"
    /\ board[0][0] = null
    /\ board[1][0] = Tile("blue", 0, 1)
    /\ board[2][0] = makeSpecial(Tile("red", 0, 2))
    /\ board[0][1] = null
    /\ ~IsFull(dropTiles(board)) /\ dropTiles(board) = board


\* C18: Board.shuffle keeps the multiset of tile types: of every type the board
\* holds as many tiles after shuffle as before.
C18_ShuffleKeepsTypes ==
    [][lastOp' = "shuffle" =>
         \A type \in Types : CountOfType(board', type) = CountOfType(board, type)]_vars

\* C19: right after Board.shuffle returns, and after Board.initialize,
\* Board.findMatches is empty: no three or more tiles of one type in a line.
C19_NoMatchesAfterShuffle ==
    lastOp \in {"shuffle", "initialize"} => ~hasMatches(board)


\* C20: the cascade one swap starts always ends after at most Width * Height
\* iterations of processMatches, whatever types the refill draws. (comboCount
\* is 0 at the swap and goes up by one in every iteration of processMatches.)
C20_CascadeBounded == comboCount <= Width * Height


\* C21: activatePowerUp(kind) fails closed: with inventory[kind] at 0, or during
\* a cascade (isAnimating), or paused, or not playing, it returns false and
\* changes nothing.
C21_ActivateFailsClosed ==
    \A kind \in PowerTypes : \A stream \in Streams :
        (inventory[kind] = 0 \/ isAnimating \/ isPaused \/ ~isPlaying) =>
            /\ ~activatePowerUpResult(State, kind)
            /\ activatePowerUp(State, kind, stream) = State

\* a cascade is running while a color bomb is in the inventory
C21_Witness ==
    /\ isPlaying /\ ~isPaused /\ isAnimating
    /\ \E i \in 1..Len(timers) : timers[i].kind \in {"dropFill", "rescan"}
    /\ inventory["color_bomb"] > 0
    /\ activatePowerUp(State, "color_bomb", 0) = State
    /\ ~activatePowerUpResult(State, "color_bomb")


\* the power-ups that wait for a target
Targeted == {"hammer", "bomb", "color_bomb"}

\* C22: activating a targeted power-up only arms it (activePowerUp = kind, the
\* inventory as it was); the handleTileClick that follows on an occupied cell
\* executes the effect, lowers inventory[kind] by exactly 1 and leaves the
\* power-ups idle (activePowerUp null, isWaitingForTarget false).
C22_ArmThenExecute ==
    /\ \A kind \in Targeted : \A stream \in DrawStreams :
          canUse(State, kind) =>
              activatePowerUp(State, kind, stream) =
                  [State EXCEPT !.activePowerUp = kind, !.isWaitingForTarget = TRUE]
    /\ (isWaitingForTarget /\ activePowerUp \in Targeted) =>
          \A p \in Positions :
              getTile(board, p.col, p.row) # null =>
                  LET after == handleTileClick(State, p.col, p.row) IN
                  /\ after.inventory =
                         [inventory EXCEPT ![activePowerUp] = @ - 1]
                  /\ after.activePowerUp = "null"
                  /\ ~after.isWaitingForTarget
                  /\ getTile(after.board, p.col, p.row) = null
                  /\ Len(after.timers) = Len(timers) + 1
                  /\ after.timers[Len(after.timers)].kind = "refill"

\* the hammer of the inventory was armed and then used on the tile at (1, 1)
C22_Witness ==
    /\ lastOp = "hammer"
    /\ inventory["hammer"] = 0
    /\ activePowerUp = "null" /\ ~isWaitingForTarget
    /\ getTile(board, 1, 1) = null
    /\ \A p \in Positions \ {[col |-> 1, row |-> 1]} : getTile(board, p.col, p.row) # null
    /\ timers = <<[kind |-> "refill", delay |-> hammerDelay, left |-> hammerDelay,
                    level |-> currentLevel]>>


\* C23: after a targeted power-up has removed tiles a cascade pass runs in the
\* end: gravity and refill make the board full again, and a match the refill
\* made is then found and resolved. (checkMatches alone finds a match; the game
\* loop calls it in every frame while isPlaying holds, and the rescan timer of
\* a cascade calls it. So a refill that leaves a match with no timer pending
\* must find the game loop running.)
C23_CascadeAfterPowerUp ==
    (lastOp = "refill" /\ timers = <<>> /\ hasMatches(board)) =>
        (IsFull(board) /\ isPlaying)


\* C24: while a cascade is in progress (isAnimating) a click is rejected:
\* handleClick changes neither the selection, nor the board, nor movesLeft,
\* nor score, and starts no second cascade.
C24_ClickRejectedDuringCascade ==
    isAnimating => \A p \in Positions : handleClick(State, p) = State

\* the refill of a cascade has run in a game that is playing and not paused,
\* the rescan is pending, and a click on (0, 0) would select a tile if
\* handleClick let it through
C24_Witness ==
    /\ isAnimating /\ isPlaying /\ ~isPaused
    /\ lastOp = "dropFill"
    /\ IsFull(board)
    /\ handleTileSelection(State, [col |-> 0, row |-> 0]) # State
    /\ handleClick(State, [col |-> 0, row |-> 0]) = State


\* C25: while a cascade is in progress (isAnimating) power-up targeting is
\* rejected: handleTileClick removes no tile and leaves the inventory as it is,
\* also when the power-up was armed before the cascade began.
C25_TargetRejectedDuringCascade ==
    isAnimating =>
        \A p \in Positions :
            LET after == handleTileClick(State, p.col, p.row) IN
            /\ after.board = board
            /\ after.inventory = inventory


\* the cells of the board at most one column and one row away from p
Neighbourhood(p) ==
    {q \in Positions : /\ q.col - p.col \in {-1, 0, 1}
                       /\ q.row - p.row \in {-1, 0, 1}}

\* the cells that hold no tile
EmptyCells(b) == {q \in Positions : getTile(b, q.col, q.row) = null}

OnEdge(p) == p.col \in {0, Width - 1} \/ p.row \in {0, Height - 1}
InCorner(p) == p.col \in {0, Width - 1} /\ p.row \in {0, Height - 1}

\* C26: the bomb at (col, row) removes exactly the tiles at the cells (c, r)
\* with |c - col| <= 1 and |r - row| <= 1 inside the board, and no other tile:
\* 9 of a full board in the interior, 6 on an edge, 4 in a corner.
C26_BombArea ==
    \A p \in Positions :
        LET after == executeBomb(State, p.col, p.row).board IN
        /\ \A q \in Positions :
              getTile(after, q.col, q.row) =
                  IF q \in Neighbourhood(p) THEN null ELSE getTile(board, q.col, q.row)
        /\ IsFull(board) =>
              Cardinality(EmptyCells(after)) =
                  IF InCorner(p) THEN 4 ELSE IF OnEdge(p) THEN 6 ELSE 9

\* a bomb on (1, 1) of a full board has emptied the nine cells around it
C26_Witness ==
    /\ lastOp = "bomb"
    /\ EmptyCells(board) = Neighbourhood([col |-> 1, row |-> 1])
    /\ Cardinality(EmptyCells(board)) = 9
    /\ inventory["bomb"] = 0


\* C27: the color bomb on a tile of type t removes every tile of type t and
\* no tile of another type; right after it, before the refill, the board holds
\* no tile of type t.
C27_ColorBombRemovesType ==
    \A t \in Types :
        LET after == executeColorBomb(State, t).board IN
        /\ \A q \in Positions :
              getTile(after, q.col, q.row) =
                  IF getTile(board, q.col, q.row).type = t
                  THEN null ELSE getTile(board, q.col, q.row)
        /\ CountOfType(after, t) = 0

\* a color bomb has just removed the red tiles, four or more, of a full
\* board: the tiles left are blue and green
C27_Witness ==
    /\ lastOp = "color_bomb"
    /\ CountOfType(board, "red") = 0
    /\ Cardinality(EmptyCells(board)) >= 4
    /\ CountOfType(board, "blue") + CountOfType(board, "green")
           = (Width * Height) - Cardinality(EmptyCells(board))
    /\ CountOfType(board, "blue") > 0 /\ CountOfType(board, "green") > 0
    /\ \E i \in 1..Len(timers) : timers[i].kind = "refill" /\ timers[i].left = colorBombDelay


\* C28: the extra_moves power-up, when it can be used, lowers
\* inventory.extra_moves by 1, raises movesLeft by 5 and leaves the board, the
\* score, the objectives and the armed state as they are; no cascade starts.
C28_ExtraMoves ==
    canUse(State, "extra_moves") =>
        \A stream \in DrawStreams :
            activatePowerUp(State, "extra_moves", stream) =
                [State EXCEPT !.inventory["extra_moves"] = @ - 1,
                              !.movesLeft = @ + 5]

\* extra_moves was used on the level's first move budget
C28_Witness ==
    /\ lastOp = "extra_moves"
    /\ movesLeft = LevelMoves + 5
    /\ inventory["extra_moves"] = 0
    /\ isPlaying /\ ~isAnimating /\ timers = <<>>
    /\ score = 0 /\ IsFull(board)


\* what a call added to the score, and the tiles it removed
Gain(after) == after.score - score
Removed(after) == Cardinality(EmptyCells(after.board)) - Cardinality(EmptyCells(board))

\* the score of a match of one group of three tiles with no combo bonus
ScoreOfThree == totalScore(<<"group">>, 0)

\* C29: per removed tile each targeted power-up (hammer, bomb, color_bomb) adds
\* more score than a normal match of three tiles adds per matched tile, and
\* color_bomb adds the most per tile. (Rates are compared by cross
\* multiplication: gain / removed > ScoreOfThree / 3.)
C29_PowerUpScoreRates ==
    (isWaitingForTarget /\ activePowerUp \in Targeted) =>
        \A p \in Positions :
            getTile(board, p.col, p.row) # null =>
                LET after == handleTileClick(State, p.col, p.row)
                    hammer == executeHammer(State, p.col, p.row)
                    bomb == executeBomb(State, p.col, p.row)
                    colorBomb == executeColorBomb(State, getTile(board, p.col, p.row).type)
                IN  /\ 3 * Gain(after) > ScoreOfThree * Removed(after)
                    /\ Gain(colorBomb) * Removed(hammer) > Gain(hammer) * Removed(colorBomb)
                    /\ Gain(colorBomb) * Removed(bomb) > Gain(bomb) * Removed(colorBomb)


\* the positions a swap request can name: the cells of the board and the
\* positions one step outside it
Requested == [col : (-1)..Width, row : (-1)..Height]

\* the two positions are one step apart in a row or in a column
RookAdjacent(pos1, pos2) ==
    \/ pos1.row = pos2.row /\ pos1.col - pos2.col \in {-1, 1}
    \/ pos1.col = pos2.col /\ pos1.row - pos2.row \in {-1, 1}

\* the call left the board, movesLeft and score alone and started no cascade
NoOp(after) ==
    /\ after.board = board
    /\ after.movesLeft = movesLeft
    /\ after.score = score
    /\ after.timers = timers
    /\ after.isAnimating = isAnimating

\* C30: a swap request whose two positions are not rook-adjacent (diagonal and
\* identical positions included) or are out of bounds is rejected as a no-op:
\* board, movesLeft and score unchanged and no cascade started, whether it
\* comes through tile selection or through PuzzleEngine.swapTiles.
C30_InvalidSwapRejected ==
    (isPlaying /\ ~isPaused /\ ~isAnimating) =>
        \A pos1 \in Requested : \A pos2 \in Requested :
            (~RookAdjacent(pos1, pos2) \/ pos1 \notin Positions \/ pos2 \notin Positions) =>
                /\ NoOp(swapTiles(State, pos1, pos2))
                /\ (pos1 \in Positions /\ pos2 \in Positions) =>
                      NoOp(handleTileSelection(
                               [State EXCEPT !.selectedTile = <<pos1>>], pos2))



\* the boards Board.initialize builds for a level
FreshBoards == {initialize(stream) : stream \in DrawStreams}

\* C31: startLevel for a configured level resets the session whatever the state
\* before it was: movesLeft and objectives are those of the level configuration,
\* score and comboCount are 0, no tile is selected, isAnimating is false, the
\* board is the newly built full board, and the engine is playing and not paused.
C31_StartLevelResets ==
    \A levelNumber \in ConfiguredLevels, newBoard \in FreshBoards :
        LET after == startLevel(State, levelNumber, newBoard)
        IN  /\ after.currentLevel = levelNumber
            /\ after.movesLeft = levelConfig.moves
            /\ after.objectives = levelConfig.objectives
            /\ after.score = 0
            /\ after.comboCount = 0
            /\ after.selectedTile = <<>>
            /\ ~after.isAnimating
            /\ after.board = newBoard
            /\ IsFull(after.board)
            /\ after.isPlaying
            /\ ~after.isPaused

\* level 1 has been started again after a level that left a timer pending, and
\* the session is as the configuration says
C31_Witness ==
    /\ lastOp = "startLevel"
    /\ currentLevel = 1
    /\ timers # <<>>
    /\ Total(inventory, PowerTypes) = 0
    /\ isPlaying /\ ~isPaused /\ ~isAnimating
    /\ movesLeft = levelConfig.moves
    /\ objectives = levelConfig.objectives
    /\ score = 0 /\ comboCount = 0 /\ selectedTile = <<>>
    /\ IsFull(board)

\* C32: startLevel with a level number that has no configuration does not fail:
\* it starts the session with the configuration of level 1, that is its moves,
\* its objectives, its board size and its tile types.
C32_DefaultConfiguration ==
    \A levelNumber \in LevelNumbers \ ConfiguredLevels, newBoard \in FreshBoards :
        LET after == startLevel(State, levelNumber, newBoard)
        IN  /\ configFor(levelNumber).boardSize = [width |-> Width, height |-> Height]
            /\ configFor(levelNumber).tileTypes = TileTypes
            /\ after.currentLevel = levelNumber
            /\ after.movesLeft = levelConfig.moves
            /\ after.objectives = levelConfig.objectives
            /\ after.board = newBoard
            /\ after.isPlaying
            /\ ~after.isPaused

\* level 2, which has no configuration, has been started and is being played
\* with the moves and objectives of level 1
C32_Witness ==
    /\ lastOp = "startLevel"
    /\ currentLevel = 2
    /\ currentLevel \notin ConfiguredLevels
    /\ isPlaying
    /\ movesLeft = levelConfig.moves
    /\ objectives = levelConfig.objectives
    /\ IsFull(board)

\* C33: a Board constructed with width w and height h has width w and height h
\* and exactly w * h tiles, one in every cell, so that (w - 1, h - 1) is a valid
\* position and (w, h - 1) is not.
C33_ConstructedDimensions ==
    lastOp = "construct" =>
        \A stream \in Streams \cup DrawStreams :
            LET built == BoardConstructor(board.width, board.height, stream)
            IN  /\ built.width = board.width
                /\ built.height = board.height
                /\ Len(AllTiles(built.tiles, 1)) = board.width * board.height
                /\ isValidPosition(built, board.width - 1, board.height - 1)
                /\ ~isValidPosition(built, board.width, board.height - 1)

\* the step executed the power-up named kind: a shuffle or extra moves at its
\* button, a targeted power-up that was armed at the click on its target
Executed(kind) ==
    /\ lastOp' = kind
    /\ kind \in Targeted => (activePowerUp = kind /\ activePowerUp' = "null")

\* C34: no count of the power-up inventory is ever below 0, and in every step a
\* count either stays as it is or falls by exactly 1, the latter only in the step
\* that executes a power-up of that kind, which changes no other count.
C34_InventoryOnlyFalls ==
    [][\A kind \in PowerTypes :
          /\ inventory'[kind] >= 0
          /\ \/ inventory'[kind] = inventory[kind]
             \/ /\ inventory'[kind] = inventory[kind] - 1
                /\ Executed(kind)
                /\ \A other \in PowerTypes \ {kind} : inventory'[other] = inventory[other]]_vars

\* the last shuffle was used up at its button while a level was played
C34_Witness ==
    /\ lastOp = "shuffle"
    /\ isPlaying
    /\ inventory["shuffle"] = 0
    /\ \A kind \in PowerTypes : inventory[kind] >= 0

\* every tile of the board b carries the col and row of the cell that holds it
PositionsConsistent(b) ==
    \A p \in Positions :
        getTile(b, p.col, p.row) # null =>
            /\ getTile(b, p.col, p.row).col = p.col
            /\ getTile(b, p.col, p.row).row = p.row

\* C35: for every occupied cell (col, row) the tile stored there has tile.col =
\* col and tile.row = row, whichever Board operation ran last (initialize,
\* swapTiles, removeMatches, dropTiles, fillEmptySpaces, shuffle); a tile so
\* placed names one cell only, so none is held by two cells.
C35_TilePositions == PositionsConsistent(board)

\* a swap has made a match, its tiles were removed, and gravity and refill have
\* moved tiles to other cells and made new ones
C35_Witness ==
    /\ lastOp = "dropFill"
    /\ comboCount = 1
    /\ movesLeft = levelConfig.moves - 1
    /\ IsFull(board)
    /\ PositionsConsistent(board)

\* C36: movesLeft is never below 0, and with movesLeft at 0 a swap request, made
\* to swapTiles for two adjacent cells or by a click on a cell, leaves the
\* board, movesLeft and the score as they are.
C36_MovesNeverNegative ==
    /\ movesLeft >= 0
    /\ movesLeft = 0 =>
          /\ \A pair \in AdjacentPairs :
                LET after == swapTiles(State, pair[1], pair[2])
                IN  /\ after.board = board
                    /\ after.movesLeft = movesLeft
                    /\ after.score = score
          /\ \A position \in Positions :
                LET after == handleClick(State, position)
                IN  /\ after.board = board
                    /\ after.movesLeft = movesLeft
                    /\ after.score = score

\* the last move is spent, its cascade is over, and a swap asked for by two
\* clicks before the next frame was refused
C36_Witness ==
    /\ lastOp = "swapRefused"
    /\ movesLeft = 0
    /\ isPlaying /\ ~isAnimating
    /\ selectedTile = <<>>

\* the tiles of a group lie in cells that follow one another in one row or in
\* one column
Consecutive(group) ==
    \A k \in 1..(Len(group.tiles) - 1) :
        \/ /\ group.tiles[k + 1].row = group.tiles[k].row
           /\ group.tiles[k + 1].col = group.tiles[k].col + 1
        \/ /\ group.tiles[k + 1].col = group.tiles[k].col
           /\ group.tiles[k + 1].row = group.tiles[k].row + 1

\* C37: every group Board.findMatches returns is made of tiles in consecutive
\* cells of one row or one column, no empty cell lying between two of them,
\* also on a board that has empty cells.
C37_GroupsAreContiguous ==
    \A k \in 1..Len(findMatches(board)) : Consecutive(findMatches(board)[k])

\* what the callback of the pending timer i leaves when it runs in the state s
TimerCallback(s, i, stream) ==
    LET fired == [s EXCEPT !.timers = RemoveAt(@, i)]
    IN  CASE s.timers[i].kind = "dropFill" -> dropFillCallback(fired, stream)
          [] s.timers[i].kind = "rescan" -> rescanCallback(fired)
          [] s.timers[i].kind = "refill" -> refillCallback(fired, stream)

\* the state as it is, with the report of the level's outcome taken away
Unreported == [State EXCEPT !.levelResult = "none", !.completeLevelArgs = <<>>]

\* what a frame of the game loop, a call of update and the callback of each
\* pending timer leave when they run next
LaterCalls ==
    {gameLoop(Unreported), update(Unreported)}
        \cup {TimerCallback(Unreported, i, stream) :
                 i \in 1..Len(timers), stream \in DrawStreams}

\* C38: once endLevel has run for a level (isPlaying is false and the outcome is
\* reported), neither a frame of the game loop, nor a call of update, nor the
\* callback of a pending timer reports an outcome again: none of them calls
\* endLevel or game.completeLevel before startLevel is called.
C38_ReportedOnce ==
    (~isPlaying /\ levelResult # "none") =>
        \A call \in LaterCalls : call.levelResult = "none"

\* timer i was set while another level was played than the one played now
Stale(i) == timers[i].level # currentLevel

\* C39: the callback of a timer set by a cascade or a power-up of an earlier
\* level, firing after startLevel has begun another level, does not change the
\* new board, does not clear isAnimating while a cascade of the new level runs,
\* and neither adds to the score nor lowers an objective.
C39_StaleTimersHarmless ==
    \A i \in 1..Len(timers), stream \in DrawStreams :
        (isPlaying /\ Stale(i) /\ Due(i)) =>
            LET after == TimerCallback(State, i, stream)
            IN  /\ after.board = board
                /\ isAnimating => after.isAnimating
                /\ after.score = score
                /\ after.objectives = objectives

====
